---- MODULE Spec2Model ----
(***************************************************************************)
(* Steam discount bot (src/Discount_Bot.py): the surveillance thread that  *)
(* scrapes the specials page and replaces the sales table, and the asyncio *)
(* event loop that runs the summary fan-out, the per-game alerts, the      *)
(* pending-alert job and the command handlers.                             *)
(*                                                                         *)
(* Coroutines are modelled at await granularity: one action is the code    *)
(* that runs between two awaits.  The surveillance thread and the executor *)
(* threads interleave freely with the event loop.                          *)
(***************************************************************************)
EXTENDS Integers, Sequences, FiniteSets, TLC

\* ------------------------------------------------------------------ bounds
\* iterations of surveillance_loop that are explored
MaxCycles == 2
\* rows on the scraped page, at most
MaxSnapshot == 2
\* largest total the page reports in the main specification
MaxTotal == 3
\* largest reported total and row count in the gate specification
GateTotal == 20
\* longest queue the drain specification starts from
DrainLen == 2

\* ------------------------------------------------------ program constants
\* SCRAPE_TOLERANCE = 0.90, as the fraction ToleranceNum / ToleranceDen
ToleranceNum == 9
ToleranceDen == 10
SURVEILLANCE_INTERVAL == 240
\* the literal of time.sleep(60) on the retry path
RetrySleep == 60

\* sequences over S of length at most n
SeqUpTo(S, n) == UNION { [1..k -> S] : k \in 0..n }

SeqToSet(s) == { s[i] : i \in 1..Len(s) }

\* ------------------------------------------------------------ input sets
Chats == {1, 2}

\* Names are sequences of characters; "D" stands for Doom, "D E" for
\* Doom Eternal.  The page's titles are already stripped by the scraper.
Doom == <<"D">>
DoomEternal == <<"D", " ", "E">>
Eternal == <<"E">>

\* rows the specials page can show: (title, href)
PageRows ==
    { [name |-> Doom,        steam_link |-> "a"],
      [name |-> DoomEternal, steam_link |-> "b"],
      [name |-> Eternal,     steam_link |-> "c"] }

\* every page of at most MaxSnapshot rows, rows repeated or not
AllPages == SeqUpTo(PageRows, MaxSnapshot)

\* the pages and totals of the specification of the whole bot: one item or
\* two others, with the total unknown or larger than any page
ScenarioPages ==
    { << [name |-> Eternal, steam_link |-> "c"] >>,
      << [name |-> Doom, steam_link |-> "a"],
         [name |-> DoomEternal, steam_link |-> "b"] >> }
ScenarioTotals == {0, MaxTotal}

\* the statements that storage can fail, of process_scraped_data and of
\* add_game_subscription_sync: none in the specification of the whole bot
NoFault == {0}
AnyFault == 0..(MaxSnapshot + 2)

\* texts a user can type to /subscribe_game
RawNames == { <<"D">>, <<"d", " ", "e">>, <<" ", "D", " ", "E", " ">> }

\* ------------------------------------------------------------- str methods
\* str.lower(), character by character
LowerChar(c) == CASE c = "D" -> "d" [] c = "E" -> "e" [] OTHER -> c

Lower(s) == [i \in 1..Len(s) |-> LowerChar(s[i])]

RECURSIVE LStrip(_)
LStrip(s) == IF s # <<>> /\ Head(s) = " " THEN LStrip(Tail(s)) ELSE s

RECURSIVE RStrip(_)
RStrip(s) ==
    IF s # <<>> /\ s[Len(s)] = " " THEN RStrip(SubSeq(s, 1, Len(s) - 1)) ELSE s

\* str.strip()
Strip(s) == RStrip(LStrip(s))

\* game_name.lower().strip()
Normalize(s) == Strip(Lower(s))

\* sub occurs in s as a contiguous run (SQL  LIKE '%sub%')
Contains(s, sub) ==
    \E i \in 1..(Len(s) + 1) :
        /\ i + Len(sub) - 1 <= Len(s)
        /\ SubSeq(s, i, i + Len(sub) - 1) = sub

\* ------------------------------------------------------------------ state
VARIABLES
    pc,                 \* surveillance thread: "run", "loop", "sleep", "dead"
    cycles,             \* iterations of surveillance_loop started
    data,               \* what run_scraper_logic returned to the loop
    gate,               \* expected_total, scraped_count and the outcome of the scrape,
                        \* while the loop has not acted on them
    sales,              \* table sales (committed rows)
    applied,            \* the snapshot of the last committed process_scraped_data
    diff,               \* outcome of the process_scraped_data call of this iteration
    sleep,              \* argument of the time.sleep the thread is in (0: not asleep)
    subscriptions,      \* table subscriptions
    subscribed_users,   \* the global set
    game_subscriptions, \* table game_subscriptions: <<chat_id, game_name>>
    new_game_queues,    \* the global dict, in insertion order: <<[chat, queue], ...>>
    bot_loop,           \* post_init has run
    handler,            \* the update handler in progress (updates are handled one at a time)
    summary,            \* the queue_and_send_summary coroutine
    alerts,             \* the alert_subscribed_games coroutine
    job,                \* the process_pending_alerts_job run
    drain               \* the drain specification's record of the job's runs: the
                        \* queues it started from, the runs so far, and the chats
                        \* whose send raised in the current run

vars ==
    << pc, cycles, data, gate, sales, applied, diff, sleep, subscriptions,
       subscribed_users, game_subscriptions, new_game_queues, bot_loop, handler,
       summary, alerts, job, drain >>

syncVars == << pc, cycles, data, gate, sales, applied, diff, sleep >>
registryVars == << subscriptions, subscribed_users, game_subscriptions >>

NoGate == [total |-> 0, count |-> 0, verdict |-> "none"]
NoDiff ==
    [st |-> "none", prior |-> {}, snap |-> <<>>, prev |-> <<>>,
     added |-> <<>>, deleted |-> {}, cold |-> FALSE, fault |-> 0]
NoGame == [name |-> <<>>, steam_link |-> ""]
NoHandler ==
    [op |-> "none", chat |-> 0, name |-> <<>>, at |-> "none", success |-> FALSE]
IdleSummary ==
    [pc |-> "idle", games |-> <<>>, used |-> 0, pos |-> 0, cold |-> FALSE,
     sent |-> <<>>]
IdleAlerts ==
    [pc |-> "idle", games |-> <<>>, rows |-> {}, cold |-> FALSE, sent |-> {}]
IdleJob ==
    [pc |-> "idle", keys |-> <<>>, cur |-> 0, game |-> NoGame, served |-> <<>>]
NoDrain == [on |-> FALSE, ticks |-> 0, q0 |-> <<>>, raised |-> {}]

\* the surveillance thread before its first iteration, on the tables that
\* setup_database() creates in a fresh file
InitSync ==
    /\ pc = "run"
    /\ cycles = 0
    /\ data = <<>>
    /\ gate = NoGate
    /\ sales = {}
    /\ applied = <<>>
    /\ diff = NoDiff
    /\ sleep = 0

LoadSubscriptionsLocal(table) == {}

\* load_subscriptions(): the chat ids of table subscriptions become the
\* global set
LoadSubscriptions(table) == table

\* load_subscriptions() on the fresh tables, and the module's globals
InitBot ==
    /\ subscriptions = {}
    /\ subscribed_users = LoadSubscriptions(subscriptions)
    /\ game_subscriptions = {}
    /\ new_game_queues = <<>>
    /\ bot_loop = FALSE
    /\ handler = NoHandler
    /\ summary = IdleSummary
    /\ alerts = IdleAlerts
    /\ job = IdleJob

Init == InitSync /\ InitBot /\ drain = NoDrain

\* ------------------------------------------------------ surveillance thread
\* The scrape is incomplete when fewer rows than expected_total * SCRAPE_TOLERANCE
\* were found.  The product is a double: 0.90 is stored as 9/10 + 1/(5 * 2^53)
\* and the product is rounded to nearest, so for every total below 2^31 it
\* compares with an integer row count exactly as 9 * total / 10 does.
AcceptsBelowOnly(expected_total, scraped_count) ==
    ~ ( /\ expected_total > 0
        /\ scraped_count * ToleranceDen <= expected_total * ToleranceNum )

AcceptsAnything(expected_total, scraped_count) == TRUE

Accepts(expected_total, scraped_count) ==
    ~ ( /\ expected_total > 0
        /\ scraped_count * ToleranceDen < expected_total * ToleranceNum )

\* the branch run_scraper_logic takes at "if expected_total > 0 and ..."
Verdict(expected_total, scraped_count) ==
    IF Accepts(expected_total, scraped_count) THEN "accepted" ELSE "rejected"

\* run_scraper_logic: the driver fails to start or the page raises (failed),
\* or the page reports expected_total and shows the rows of sales_items
RunScraperLogic(totals, pages) ==
    /\ pc = "run"
    /\ cycles < MaxCycles
    /\ \E failed \in BOOLEAN, expected_total \in totals,
          sales_items \in pages :
          IF failed
          THEN /\ expected_total = 0 /\ sales_items = <<>>
               /\ data' = <<>>
               /\ gate' = [total |-> 0, count |-> 0, verdict |-> "failed"]
          ELSE /\ data' = IF Accepts(expected_total, Len(sales_items))
                          THEN sales_items ELSE <<>>
               /\ gate' = [total |-> expected_total, count |-> Len(sales_items),
                           verdict |-> Verdict(expected_total, Len(sales_items))]
    /\ pc' = "loop"
    /\ cycles' = cycles + 1
    /\ UNCHANGED << sales, applied, diff, sleep, registryVars, new_game_queues,
                    bot_loop, handler, summary, alerts, job, drain >>

\* get_current_sales_map(): the links of the committed rows
SalesMap(rows) == { r.steam_link : r \in rows }

IsNewLinkAlways(link, db_map) == TRUE

\* "if link not in db_map"
IsNewLink(link, db_map) == link \notin db_map

\* links_to_delete
LinksToDelete(db_map, scraped_links) == db_map \ scraped_links

\* id INTEGER PRIMARY KEY: a row inserted without an id gets the largest id
\* of the table plus one
NextId(rows) ==
    IF rows = {} THEN 1
    ELSE 1 + CHOOSE n \in { r.id : r \in rows } : \A r \in rows : r.id <= n

ViolatesUniqueNever(rows, link) == FALSE

\* steam_link TEXT UNIQUE: the INSERT of a link that a row holds raises
ViolatesUnique(rows, link) == \E r \in rows : r.steam_link = link

\* The for loop of process_scraped_data on the open transaction: INSERT of a
\* link the table already holds violates UNIQUE(steam_link) and raises, and so
\* does the statement number fault when storage fails (fault = 0: none does).
RECURSIVE ApplyItems(_, _, _, _, _, _)
ApplyItems(items, db_map, rows, new_arrivals, current_date, fault) ==
    IF items = <<>>
    THEN [ok |-> TRUE, rows |-> rows, new_arrivals |-> new_arrivals]
    ELSE LET item == Head(items)
             link == item.steam_link
             later == IF fault > 0 THEN fault - 1 ELSE 0
         IN  IF fault = 1
             THEN [ok |-> FALSE, rows |-> rows, new_arrivals |-> new_arrivals]
             ELSE IF IsNewLink(link, db_map)
             THEN IF ViolatesUnique(rows, link)
                  THEN [ok |-> FALSE, rows |-> rows, new_arrivals |-> new_arrivals]
                  ELSE ApplyItems(Tail(items), db_map,
                                  rows \cup { [id |-> NextId(rows),
                                               game_name |-> item.name,
                                               steam_link |-> link,
                                               scrape_date |-> current_date] },
                                  Append(new_arrivals, item), current_date, later)
             ELSE ApplyItems(Tail(items), db_map,
                             { IF r.steam_link = link
                               THEN [r EXCEPT !.scrape_date = current_date]
                               ELSE r : r \in rows },
                             new_arrivals, current_date, later)

\* process_scraped_data(scraped_data): the rows of the open transaction and
\* new_arrivals, with ok = FALSE when a statement raised before conn.commit()
\* returned.  fault numbers the statement that storage fails: the one of item
\* fault, then the DELETE (run when there are links to delete), then commit.
ProcessScrapedData(table, scraped_data, current_date, fault) ==
    LET db_map == SalesMap(table)
        scraped_links == { scraped_data[i].steam_link : i \in 1..Len(scraped_data) }
        res == ApplyItems(scraped_data, db_map, table, <<>>, current_date, fault)
        links_to_delete == LinksToDelete(db_map, scraped_links)
        delete_raised == fault = Len(scraped_data) + 1 /\ links_to_delete # {}
        commit_raised == fault = Len(scraped_data) + 2
    IN  [ok |-> res.ok /\ ~ delete_raised /\ ~ commit_raised,
         rows |-> IF res.ok /\ ~ delete_raised
                  THEN { r \in res.rows : r.steam_link \notin links_to_delete }
                  ELSE res.rows,
         new_arrivals |-> res.new_arrivals,
         deleted |-> links_to_delete]

CommittedPerStatement(table, res) == res.rows

\* What other connections read once the call is over: the transaction's rows
\* when conn.commit() returned, the rows as they were when the call raised
\* (the connection is dropped with its transaction open).
Committed(table, res) == IF res.ok THEN res.rows ELSE table

TruthyAlways(scraped_data) == TRUE

\* "if data:": a list is true when it has an item
Truthy(scraped_data) == scraped_data # <<>>

\* "if data:" is false: sleep 60 seconds and retry
LoopRetry ==
    /\ pc = "loop"
    /\ ~ Truthy(data)
    /\ pc' = "sleep"
    /\ sleep' = RetrySleep
    /\ UNCHANGED << cycles, data, gate, sales, applied, diff, registryVars,
                    new_game_queues, bot_loop, handler, summary, alerts, job, drain >>

\* "if data:" is true: process_scraped_data, then both coroutines are handed to
\* the bot's loop when there are new arrivals, then the long sleep.  An
\* exception of process_scraped_data ends the thread with nothing committed.
\* The two coroutines of a cycle are over before the next cycle hands in its
\* own: a cycle lasts SURVEILLANCE_INTERVAL seconds and more.
LoopProcess(faults) ==
    /\ pc = "loop"
    /\ Truthy(data)
    /\ \E fault \in faults \cap (0..(Len(data) + 2)) :
       LET res == ProcessScrapedData(sales, data, cycles, fault)
           cold == sales = {}
           outcome == [st |-> IF res.ok THEN "ok" ELSE "error",
                       prior |-> sales, snap |-> data, prev |-> applied,
                       added |-> res.new_arrivals, deleted |-> res.deleted,
                       cold |-> cold, fault |-> fault]
       IN  IF res.ok
           THEN /\ sales' = Committed(sales, res)
                /\ applied' = data
                /\ diff' = outcome
                /\ IF res.new_arrivals # <<>> /\ bot_loop
                   THEN /\ summary.pc = "idle"
                        /\ alerts.pc = "idle"
                        /\ summary' = [IdleSummary EXCEPT !.pc = "sched",
                                         !.games = res.new_arrivals, !.cold = cold]
                        /\ alerts' = [IdleAlerts EXCEPT !.pc = "sched",
                                        !.games = res.new_arrivals, !.cold = cold]
                   ELSE UNCHANGED << summary, alerts >>
                /\ pc' = "sleep"
                /\ sleep' = SURVEILLANCE_INTERVAL
           ELSE /\ sales' = Committed(sales, res)
                /\ diff' = outcome
                /\ pc' = "dead"
                /\ UNCHANGED << applied, sleep, summary, alerts >>
    /\ data' = <<>>
    /\ gate' = NoGate
    /\ UNCHANGED << cycles, registryVars, new_game_queues, bot_loop,
                    handler, job, drain >>

\* time.sleep returns and the while loop starts over
Wake ==
    /\ pc = "sleep"
    /\ pc' = "run"
    /\ diff' = NoDiff
    /\ gate' = NoGate
    /\ sleep' = 0
    /\ UNCHANGED << cycles, data, sales, applied, registryVars, new_game_queues,
                    bot_loop, handler, summary, alerts, job, drain >>

\* ------------------------------------------------------- new_game_queues
\* list(new_game_queues.keys())
QKeys(q) == [i \in 1..Len(q) |-> q[i].chat]

QHas(q, chat_id) == \E i \in 1..Len(q) : q[i].chat = chat_id

\* new_game_queues.get(chat_id); the empty sequence also stands for None
QGet(q, chat_id) ==
    IF QHas(q, chat_id)
    THEN (CHOOSE e \in SeqToSet(q) : e.chat = chat_id).queue
    ELSE <<>>

\* new_game_queues.pop(chat_id, None)
QPop(q, chat_id) == SelectSeq(q, LAMBDA e : e.chat # chat_id)

\* new_game_queues[chat_id] = queue: a new key goes last
QSet(q, chat_id, queue) ==
    IF QHas(q, chat_id)
    THEN [i \in 1..Len(q) |->
             IF q[i].chat = chat_id THEN [q[i] EXCEPT !.queue = queue] ELSE q[i]]
    ELSE Append(q, [chat |-> chat_id, queue |-> queue])

\* ------------------------------------------------- queue_and_send_summary
\* The next element a set iterator yields: chat ids are small ints, which
\* hash to themselves, so the table is walked in increasing order from the
\* iterator's position; 0 when the walk is over.
SetIterNext(users, pos) ==
    IF \E c \in users : c > pos
    THEN CHOOSE c \in users : c > pos /\ \A d \in users : d > pos => c <= d
    ELSE 0

ExtendQueueSkipped(q, chat_id, new_games) == q

\* the two statements that put new_games on the chat's queue
ExtendQueue(q, chat_id, new_games) == QSet(q, chat_id, QGet(q, chat_id) \o new_games)

\* one pass of "for chat_id in subscribed_users" up to the await of send_message;
\* the loop is over when the iterator is exhausted, and the coroutine dies with
\* RuntimeError when the set changed size since the iterator was made
SummaryLoop(used, pos) ==
    IF Cardinality(subscribed_users) # used
    THEN /\ summary' = IdleSummary
         /\ UNCHANGED new_game_queues
    ELSE LET chat_id == SetIterNext(subscribed_users, pos)
         IN  IF chat_id = 0
             THEN /\ summary' = IdleSummary
                  /\ UNCHANGED new_game_queues
             ELSE /\ new_game_queues' =
                        ExtendQueue(new_game_queues, chat_id, summary.games)
                  /\ summary' = [summary EXCEPT !.pc = "await", !.used = used,
                                   !.pos = chat_id, !.sent = Append(@, chat_id)]

\* queue_and_send_summary starts: the guards, then the first pass of the loop
SummaryStart ==
    /\ summary.pc = "sched"
    /\ IF subscribed_users = {} \/ Len(summary.games) = 0
       THEN /\ summary' = IdleSummary
            /\ UNCHANGED new_game_queues
       ELSE SummaryLoop(Cardinality(subscribed_users), 0)
    /\ UNCHANGED << syncVars, registryVars, bot_loop, handler, alerts, job, drain >>

\* send_message returned or raised (the exception is printed): next pass
SummaryResume ==
    /\ summary.pc = "await"
    /\ SummaryLoop(summary.used, summary.pos)
    /\ UNCHANGED << syncVars, registryVars, bot_loop, handler, alerts, job, drain >>

\* ------------------------------------------------- alert_subscribed_games
\* the orders in which SELECT can return the rows of a table
RowOrders(table) ==
    { s \in [1..Cardinality(table) -> table] :
        \A i, j \in 1..Cardinality(table) : s[i] = s[j] => i = j }

RECURSIVE ChatIdsOf(_, _)
ChatIdsOf(all_subscriptions, name) ==
    IF all_subscriptions = <<>> THEN <<>>
    ELSE LET row == Head(all_subscriptions)
             rest == ChatIdsOf(Tail(all_subscriptions), name)
         IN  IF Normalize(row[2]) = name THEN <<row[1]>> \o rest ELSE rest

\* subscription_map: normalized name -> chat ids, in row order
SubscriptionMap(all_subscriptions) ==
    [name \in { Normalize(all_subscriptions[i][2]) : i \in 1..Len(all_subscriptions) }
        |-> ChatIdsOf(all_subscriptions, name)]

\* normalized_name as the map-building loop leaves it: the last row's name
LastNormalizedName(all_subscriptions) ==
    Normalize(all_subscriptions[Len(all_subscriptions)][2])

InSubscriptionMapPartial(normalized_game_name, subscription_map) ==
    \E name \in DOMAIN subscription_map : Contains(name, normalized_game_name)

\* "if normalized_game_name in subscription_map"
InSubscriptionMap(normalized_game_name, subscription_map) ==
    normalized_game_name \in DOMAIN subscription_map

\* "subscribed_chat_ids = subscription_map[normalized_name]"
SubscribedChatIds(subscription_map, normalized_game_name, normalized_name) ==
    subscription_map[normalized_name]

\* the sends of "for game in new_arrivals", in order: <<index of the game, chat_id>>
RECURSIVE AlertPlan(_, _, _, _)
AlertPlan(new_arrivals, i, subscription_map, normalized_name) ==
    IF i > Len(new_arrivals) THEN <<>>
    ELSE LET normalized_game_name == Normalize(new_arrivals[i].name)
             ids == IF InSubscriptionMap(normalized_game_name, subscription_map)
                    THEN SubscribedChatIds(subscription_map, normalized_game_name,
                                           normalized_name)
                    ELSE <<>>
         IN  [k \in 1..Len(ids) |-> <<i, ids[k]>>]
             \o AlertPlan(new_arrivals, i + 1, subscription_map, normalized_name)

\* alert_subscribed_games from the executor's SELECT to the end of the loop
\* over new_arrivals.  The coroutine shares nothing with the others after the
\* SELECT, so its sends are taken in one step; sent holds
\* <<index of the game, chat_id>> for every send_message it awaited.
AlertsRun ==
    /\ alerts.pc = "sched"
    /\ \E all_subscriptions \in RowOrders(game_subscriptions) :
          LET plan == IF all_subscriptions = <<>> THEN <<>>
                      ELSE AlertPlan(alerts.games, 1,
                                     SubscriptionMap(all_subscriptions),
                                     LastNormalizedName(all_subscriptions))
          IN  alerts' = [alerts EXCEPT !.pc = "done",
                                       !.rows = SeqToSet(all_subscriptions),
                                       !.sent = SeqToSet(plan)]
    /\ UNCHANGED << syncVars, registryVars, new_game_queues, bot_loop, handler,
                    summary, job, drain >>

\* the coroutine returns
AlertsReturn ==
    /\ alerts.pc = "done"
    /\ alerts' = IdleAlerts
    /\ UNCHANGED << syncVars, registryVars, new_game_queues, bot_loop, handler,
                    summary, job, drain >>

\* --------------------------------------------- process_pending_alerts_job
PopBack(queue) ==
    [game |-> queue[Len(queue)], rest |-> SubSeq(queue, 1, Len(queue) - 1)]

\* game = queue.pop(0)
PopFront(queue) == [game |-> Head(queue), rest |-> Tail(queue)]

NotSubscribedNever(chat_id, users) == FALSE

\* "if chat_id not in subscribed_users"
NotSubscribed(chat_id, users) == chat_id \notin users

\* The for loop over the keys from the current key up to the await of the
\* next send_message (cur is the chat being sent to), or to the end (cur = 0).
RECURSIVE JobAdvance(_, _, _)
JobAdvance(keys, q, users) ==
    IF keys = <<>>
    THEN [q |-> q, keys |-> <<>>, cur |-> 0, game |-> NoGame]
    ELSE LET chat_id == Head(keys)
             queue == QGet(q, chat_id)
         IN  IF queue = <<>>
             THEN JobAdvance(Tail(keys), QPop(q, chat_id), users)
             ELSE IF NotSubscribed(chat_id, users)
             THEN JobAdvance(Tail(keys), QPop(q, chat_id), users)
             ELSE LET popped == PopFront(queue)
                  IN  [q |-> QSet(q, chat_id, popped.rest), keys |-> Tail(keys),
                       cur |-> chat_id, game |-> popped.game]

JobRun(q, keys, served) ==
    LET adv == JobAdvance(keys, q, subscribed_users)
    IN  /\ new_game_queues' = adv.q
        /\ job' = IF adv.cur = 0
                  THEN IdleJob
                  ELSE [pc |-> "await", keys |-> adv.keys, cur |-> adv.cur,
                        game |-> adv.game, served |-> Append(served, adv.cur)]

\* the repeating job fires (post_init scheduled it; one run at a time)
JobStart ==
    /\ bot_loop
    /\ job.pc = "idle"
    /\ JobRun(new_game_queues, QKeys(new_game_queues), <<>>)
    /\ drain' = IF drain.on
                THEN [drain EXCEPT !.ticks = @ + 1, !.raised = {}]
                ELSE drain
    /\ UNCHANGED << syncVars, registryVars, bot_loop, handler, summary, alerts >>

OnSendRaisedRequeue(q, chat_id, game) ==
    QSet(q, chat_id, <<game>> \o QGet(q, chat_id))

\* "except Exception as e: print(...)": the game popped before the send is
\* not put back
OnSendRaised(q, chat_id, game) == q

\* the keys the for loop still visits after the send: the except clause is
\* inside the loop body
KeysAfterSend(keys, raised) == keys

\* send_message returned or raised (the exception is printed): next key
JobResume ==
    /\ job.pc = "await"
    /\ \E raised \in BOOLEAN :
          /\ JobRun(IF raised
                    THEN OnSendRaised(new_game_queues, job.cur, job.game)
                    ELSE new_game_queues,
                    KeysAfterSend(job.keys, raised), job.served)
          /\ drain' = IF drain.on /\ raised
                      THEN [drain EXCEPT !.raised = @ \cup {job.cur}]
                      ELSE drain
    /\ UNCHANGED << syncVars, registryVars, bot_loop, handler, summary, alerts >>

\* ---------------------------------------------------------- the handlers
\* post_init: the loop is captured and the repeating job is scheduled;
\* polling for updates starts after it
PostInit ==
    /\ ~ bot_loop
    /\ bot_loop' = TRUE
    /\ UNCHANGED << syncVars, registryVars, new_game_queues, handler, summary,
                    alerts, job, drain >>

\* /start: INSERT OR IGNORE and subscribed_users.add with no await between
\* them; the replies that follow change nothing
Start(chat_id) ==
    /\ bot_loop
    /\ handler.op = "none"
    /\ subscriptions' = subscriptions \cup {chat_id}
    /\ subscribed_users' = subscribed_users \cup {chat_id}
    /\ UNCHANGED << syncVars, game_subscriptions, new_game_queues, bot_loop,
                    handler, summary, alerts, job, drain >>

\* /cancel up to "await loop.run_in_executor": the row and the set member go
CancelBegin(chat_id) ==
    /\ bot_loop
    /\ handler.op = "none"
    /\ subscriptions' = subscriptions \ {chat_id}
    /\ subscribed_users' = subscribed_users \ {chat_id}
    /\ handler' = [NoHandler EXCEPT !.op = "cancel", !.chat = chat_id, !.at = "executor"]
    /\ UNCHANGED << syncVars, game_subscriptions, new_game_queues, bot_loop,
                    summary, alerts, job, drain >>

\* DELETE FROM game_subscriptions WHERE chat_id = ?
RemoveAllGameSubscriptions(table, chat_id) == { row \in table : row[1] # chat_id }

\* the executor thread runs remove_all_game_subscriptions_for_user_sync
CancelExecutor ==
    /\ handler.op = "cancel"
    /\ handler.at = "executor"
    /\ game_subscriptions' = RemoveAllGameSubscriptions(game_subscriptions, handler.chat)
    /\ handler' = [handler EXCEPT !.at = "pop"]
    /\ UNCHANGED << syncVars, subscriptions, subscribed_users, new_game_queues,
                    bot_loop, summary, alerts, job, drain >>

CancelPopSkipped(q, chat_id) == q

\* what /cancel does to the dict once the executor call returned
CancelPop(q, chat_id) == QPop(q, chat_id)

\* /cancel after the await: new_game_queues.pop(chat_id, None) and the reply
CancelEnd ==
    /\ handler.op = "cancel"
    /\ handler.at = "pop"
    /\ new_game_queues' = CancelPop(new_game_queues, handler.chat)
    /\ handler' = NoHandler
    /\ UNCHANGED << syncVars, registryVars, bot_loop, summary, alerts, job, drain >>

\* get_game_details_by_name_sync: some row WHERE LOWER(game_name) LIKE '%name%'
GameOnSale(table, normalized_game_name) ==
    \E r \in table : Contains(Lower(r.game_name), normalized_game_name)

\* add_game_subscription_sync: INSERT OR IGNORE of the normalized name; when
\* the statement or the commit raises, the error is printed and nothing is
\* stored
AddGameSubscription(table, chat_id, game_name, raised) ==
    IF raised THEN table ELSE table \cup { <<chat_id, Normalize(game_name)>> }

\* "return cursor.rowcount > 0", and "return False" of the except clause
AddedRow(table, chat_id, game_name, raised) ==
    ~ raised /\ <<chat_id, Normalize(game_name)>> \notin table

\* receive_game_name up to its last reply: a game on sale is reported and
\* nothing is stored; otherwise add_game_subscription_sync runs and the
\* handler is left to reply "Success" or "Duplicate".  Both executor calls
\* are taken in one step: no other writer of game_subscriptions can run
\* between them, since updates are handled one at a time.
ReceiveGameName(chat_id, game_name_raw, faults) ==
    /\ bot_loop
    /\ handler.op = "none"
    /\ IF GameOnSale(sales, Normalize(game_name_raw))
       THEN UNCHANGED << handler, game_subscriptions >>
       ELSE \E fault \in faults \cap (0..1) :
            LET raised == fault = 1
            IN  /\ game_subscriptions' =
                      AddGameSubscription(game_subscriptions, chat_id,
                                          game_name_raw, raised)
                /\ handler' =
                      [NoHandler EXCEPT !.op = "subscribe", !.chat = chat_id,
                         !.name = game_name_raw, !.at = "reply",
                         !.success = AddedRow(game_subscriptions, chat_id,
                                              game_name_raw, raised)]
    /\ UNCHANGED << syncVars, subscriptions, subscribed_users, new_game_queues,
                    bot_loop, summary, alerts, job, drain >>

\* the reply ("Success" or "Duplicate") and ConversationHandler.END
SubscribeReply ==
    /\ handler.op = "subscribe"
    /\ handler.at = "reply"
    /\ handler' = NoHandler
    /\ UNCHANGED << syncVars, registryVars, new_game_queues, bot_loop, summary,
                    alerts, job, drain >>

\* The process is killed and started again: the tables are what was
\* committed, setup_database() creates nothing new, load_subscriptions()
\* fills the set, every other global is as the module sets it, the
\* surveillance thread starts over and no coroutine or handler survives.
Restart ==
    /\ pc' = "run"
    /\ data' = <<>>
    /\ gate' = NoGate
    /\ diff' = NoDiff
    /\ sleep' = 0
    /\ subscribed_users' = LoadSubscriptions(subscriptions)
    /\ new_game_queues' = <<>>
    /\ bot_loop' = FALSE
    /\ handler' = NoHandler
    /\ summary' = IdleSummary
    /\ alerts' = IdleAlerts
    /\ job' = IdleJob
    /\ UNCHANGED << cycles, sales, applied, subscriptions, game_subscriptions, drain >>

\* ------------------------------------------------------- specifications
\* The whole bot.  Both chats /start and /cancel; chat 1 also tracks a game.
Trackers == {1}
TrackedNames == { <<"d", " ", "e">> }

Next ==
    \/ RunScraperLogic(ScenarioTotals, ScenarioPages)
    \/ LoopRetry
    \/ LoopProcess(NoFault)
    \/ Wake
    \/ PostInit
    \/ \E chat_id \in Chats : Start(chat_id)
    \/ \E chat_id \in Chats : CancelBegin(chat_id)
    \/ CancelExecutor
    \/ CancelEnd
    \/ \E chat_id \in Trackers, game_name_raw \in TrackedNames :
          ReceiveGameName(chat_id, game_name_raw, NoFault)
    \/ SubscribeReply
    \/ SummaryStart
    \/ SummaryResume
    \/ AlertsRun
    \/ AlertsReturn
    \/ JobStart
    \/ JobResume

Spec == Init /\ [][Next]_vars

\* The surveillance thread alone, on every page and total and with storage
\* free to fail at any statement; post_init has not run, so nothing is handed
\* to the bot's loop.
SyncNext ==
    \/ RunScraperLogic(0..MaxTotal, AllPages)
    \/ LoopRetry
    \/ LoopProcess(AnyFault)
    \/ Wake

SpecSync == Init /\ [][SyncNext]_vars

\* The per-game alerts: every chat tracks any of the names and may /cancel;
\* nobody is a general subscriber and the application has no job queue.
GamesNext ==
    \/ RunScraperLogic(ScenarioTotals, ScenarioPages)
    \/ LoopRetry
    \/ LoopProcess(NoFault)
    \/ Wake
    \/ PostInit
    \/ \E chat_id \in Chats : CancelBegin(chat_id)
    \/ CancelExecutor
    \/ CancelEnd
    \/ \E chat_id \in Chats, game_name_raw \in RawNames :
          ReceiveGameName(chat_id, game_name_raw, AnyFault)
    \/ SubscribeReply
    \/ SummaryStart
    \/ AlertsRun
    \/ AlertsReturn

SpecGames == Init /\ [][GamesNext]_vars

\* The completeness gate alone, on every total and row count up to GateTotal.
GateInit ==
    /\ pc = "gate"
    /\ cycles = 0
    /\ data = <<>>
    /\ gate \in [total : 0..GateTotal, count : 0..GateTotal, verdict : {"none"}]
    /\ sales = {}
    /\ applied = <<>>
    /\ diff = NoDiff
    /\ sleep = 0
    /\ InitBot
    /\ drain = NoDrain

\* "if expected_total > 0 and scraped_count < (expected_total * SCRAPE_TOLERANCE)"
GateCheck ==
    /\ pc = "gate"
    /\ gate.verdict = "none"
    /\ gate' = [gate EXCEPT !.verdict = Verdict(gate.total, gate.count)]
    /\ UNCHANGED << pc, cycles, data, sales, applied, diff, sleep, registryVars,
                    new_game_queues, bot_loop, handler, summary, alerts, job, drain >>

SpecGate == GateInit /\ [][GateCheck]_vars

\* The pending-alert job alone on filled queues: chat 1 stays subscribed and
\* nothing is enqueued, while chat 2 may /cancel and /start.
Watched == CHOOSE c \in Chats : \A d \in Chats : c <= d

QueuesOf(q0, order) ==
    SelectSeq([i \in 1..Len(order) |-> [chat |-> order[i], queue |-> q0[order[i]]]],
              LAMBDA e : e.queue # <<>>)

DrainInit ==
    /\ InitSync
    /\ subscriptions = Chats
    /\ subscribed_users = subscriptions
    /\ game_subscriptions = {}
    /\ \E q0 \in [Chats -> SeqUpTo(PageRows, DrainLen)], order \in RowOrders(Chats) :
          /\ new_game_queues = QueuesOf(q0, order)
          /\ drain = [on |-> TRUE, ticks |-> 0, q0 |-> q0, raised |-> {}]
    /\ bot_loop = TRUE
    /\ handler = NoHandler
    /\ summary = IdleSummary
    /\ alerts = IdleAlerts
    /\ job = IdleJob

DrainNext ==
    \/ drain.ticks <= DrainLen /\ JobStart
    \/ JobResume
    \/ \E chat_id \in Chats \ {Watched} : Start(chat_id)
    \/ \E chat_id \in Chats \ {Watched} : CancelBegin(chat_id)
    \/ CancelExecutor
    \/ CancelEnd

SpecDrain == DrainInit /\ [][DrainNext]_vars

\* The pending-alert job on filled queues in a process that can be killed and
\* started again at any point.
CrashNext ==
    \/ DrainNext
    \/ PostInit
    \/ Restart

SpecCrash == DrainInit /\ [][CrashNext]_vars

\* The subscription registry alone: every chat sends /start, /cancel and
\* /subscribe_game, and the process can be killed and started again.
CacheNext ==
    \/ PostInit
    \/ \E chat_id \in Chats : Start(chat_id)
    \/ \E chat_id \in Chats : CancelBegin(chat_id)
    \/ CancelExecutor
    \/ CancelEnd
    \/ \E chat_id \in Chats, game_name_raw \in RawNames :
          ReceiveGameName(chat_id, game_name_raw, NoFault)
    \/ SubscribeReply
    \/ Restart

SpecCache == Init /\ [][CacheNext]_vars

\* ------------------------------------------------------------ properties
LinksOf(snapshot) == { snapshot[i].steam_link : i \in 1..Len(snapshot) }

RowsOf(table, chat_id) == { row \in table : row[1] = chat_id }

\* C1: a snapshot applied to an empty sales table reports every item as
\* added, and its cycle sends no summary, puts nothing on any queue and
\* sends no per-game alert.
ColdStartSilent ==
    /\ (diff.st = "ok" /\ diff.cold) => diff.added = diff.snap
    /\ ~ (summary.cold /\ summary.pc = "await")
    /\ ~ (alerts.cold /\ alerts.sent # {})

\* C2: when alert_subscribed_games has finished, each new arrival was sent to
\* exactly the chats whose tracked name is the arrival's lower-cased, stripped
\* name.
TargetedRecipientsExact ==
    alerts.pc = "done" =>
        \A i \in 1..Len(alerts.games) :
            { c \in Chats : <<i, c>> \in alerts.sent }
              = { c \in Chats :
                    \E row \in alerts.rows :
                        row[1] = c /\ Normalize(row[2]) = Normalize(alerts.games[i].name) }

\* C3: a per-game alert is sent for a new arrival only when the arrival's
\* normalized name equals a tracked normalized name.
TargetedMatchExact ==
    \A p \in alerts.sent :
        \E row \in alerts.rows :
            Normalize(row[2]) = Normalize(alerts.games[p[1]].name)

\* C3 witness: Doom arrives together with Doom Eternal while only
\* "doom eternal" is tracked: Doom Eternal is alerted, Doom is not.
TargetedMatchExactWitness ==
    /\ alerts.pc = "done"
    /\ alerts.rows # {}
    /\ \A row \in alerts.rows : row[2] = <<"d", " ", "e">>
    /\ \E i \in 1..Len(alerts.games) :
          /\ alerts.games[i].name = Doom
          /\ \A c \in Chats : <<i, c>> \notin alerts.sent
    /\ alerts.sent # {}

\* C4: with a reported total above 0 the scrape is accepted exactly when
\* 10 * rows >= 9 * total.
CompletenessGate ==
    (gate.verdict # "none" /\ gate.verdict # "failed" /\ gate.total > 0) =>
        (gate.verdict = "accepted" <=> 10 * gate.count >= 9 * gate.total)

\* C4 witness: 9 rows of a reported 10 are accepted.
CompletenessGateWitness ==
    gate.total = 10 /\ gate.count = 9 /\ gate.verdict = "accepted"

\* C5: the sales table changes only in the loop's step on an acquired and
\* complete snapshot; after a failed or incomplete scrape the loop goes to
\* sleep with the table as it was and nothing diffed.
Incomplete == gate.total > 0 /\ 10 * gate.count < 9 * gate.total

CatalogKeptOnRejection ==
    /\ [] ( (pc = "sleep" /\ (gate.verdict = "failed" \/ Incomplete)) =>
              /\ sleep = RetrySleep
              /\ diff = NoDiff
              /\ SalesMap(sales) = LinksOf(applied) )
    /\ [][ /\ (gate.verdict = "failed" \/ Incomplete) =>
                /\ sales' = sales /\ applied' = applied /\ diff' = diff
                /\ (pc = "loop" /\ pc' # pc) => (pc' = "sleep" /\ sleep' = RetrySleep)
           /\ sales' # sales =>
                (pc = "loop" /\ gate.verdict = "accepted" /\ ~ Incomplete)
         ]_vars

\* C5 witness: the retry sleep after an incomplete scrape of a cycle that
\* found the table filled.
CatalogKeptOnRejectionWitness ==
    /\ pc = "sleep"
    /\ sleep = RetrySleep
    /\ Incomplete
    /\ gate.count > 0
    /\ sales # {}

\* C6: with storage working, every process_scraped_data call on a prior
\* table and an accepted snapshot returns; it has added one row per link of the snapshot that the
\* table lacked, deleted the links the snapshot lacks, kept the rows of the
\* links in both, and left the table with the snapshot's links.
DiffPartition ==
    (diff.st # "none" /\ diff.fault = 0) =>
        /\ diff.st = "ok"
        /\ LinksOf(diff.added) = LinksOf(diff.snap) \ SalesMap(diff.prior)
        /\ diff.deleted = SalesMap(diff.prior) \ LinksOf(diff.snap)
        /\ SalesMap(sales) = LinksOf(diff.snap)
        /\ \A old \in diff.prior :
              old.steam_link \in LinksOf(diff.snap) =>
                  \E r \in sales : /\ r.steam_link = old.steam_link
                                   /\ r.game_name = old.game_name

\* C7: with storage working, processing again the snapshot that was
\* committed last returns, adds nothing, deletes nothing and leaves the
\* table's links as they were.
DiffIdempotent ==
    (diff.st # "none" /\ diff.fault = 0 /\ diff.prev = diff.snap) =>
        /\ diff.st = "ok"
        /\ diff.added = <<>>
        /\ diff.deleted = {}
        /\ SalesMap(sales) = SalesMap(diff.prior)

\* C7 witness: a two-row snapshot processed twice in a row.
DiffIdempotentWitness ==
    diff.st = "ok" /\ diff.prev = diff.snap /\ Len(diff.snap) = 2

QueuePacing ==
    drain.on =>
        LET pending == drain.q0[Watched]
            served == job.pc = "idle" \/ Watched \in SeqToSet(job.served)
            taken == IF served \/ drain.ticks = 0 THEN drain.ticks ELSE drain.ticks - 1
        IN  /\ QGet(new_game_queues, Watched)
                 = SubSeq(pending, taken + 1, Len(pending))
            /\ (job.pc = "await" /\ job.cur = Watched) =>
                   /\ drain.ticks <= Len(pending)
                   /\ job.game = pending[drain.ticks]
            /\ Cardinality(SeqToSet(job.served)) = Len(job.served)

\* C9 witness: a queue of two different games is empty after the second run.
QueuePacingWitness ==
    /\ drain.on
    /\ Len(drain.q0[Watched]) = 2
    /\ drain.q0[Watched][1] # drain.q0[Watched][2]
    /\ drain.ticks = 2
    /\ job.pc = "idle"
    /\ QGet(new_game_queues, Watched) = <<>>

\* C10: a chat that is no general subscriber, and whose /cancel is not in
\* progress, has no subscriptions row and no queue; the step that completes a
\* /cancel leaves the chat with no tracked game either; a queue grows only
\* for a general subscriber, and a tracked game appears only by the chat's own
\* /subscribe_game.
Cancelling(c) == handler.op = "cancel" /\ handler.chat = c

Other == CHOOSE c \in Chats : c # Watched

DeliveryFailureDrops ==
    /\ [] ( drain.on =>
              LET pending == drain.q0[Watched]
              IN  /\ Watched \in drain.raised =>
                        QGet(new_game_queues, Watched)
                          = SubSeq(pending, drain.ticks + 1, Len(pending))
                  /\ (job.pc = "await" /\ drain.ticks <= Len(pending)) =>
                        Watched \in SeqToSet(job.served) \cup SeqToSet(job.keys) )
    /\ [][ (job.pc = "await" /\ job'.pc = "idle") =>
              /\ \A k \in SeqToSet(job.keys) :
                    QGet(new_game_queues, k) = <<>> \/ k \notin subscribed_users
              /\ (drain.on /\ drain.ticks <= Len(drain.q0[Watched])) =>
                    Watched \in SeqToSet(job.served)
         ]_vars

\* C11 witness: in the first run the send to chat 2 raised; the second game
\* of chat 2 is still queued and the run is now sending to chat 1.
DeliveryFailureDropsWitness ==
    /\ drain.on
    /\ drain.ticks = 1
    /\ Other \in drain.raised
    /\ Len(drain.q0[Other]) = 2
    /\ QGet(new_game_queues, Other) = Tail(drain.q0[Other])
    /\ job.pc = "await"
    /\ job.cur = Watched
    /\ job.served = << Other, Watched >>

\* C12: a process_scraped_data call that raised, at whichever statement and
\* on whichever snapshot, leaves the sales table with the rows it had before
\* the call, scrape dates included.
AtomicReplace ==
    diff.st = "error" => (sales = diff.prior /\ applied = diff.prev)

\* C12 witness: the table held a row, the snapshot's new link was inserted
\* and its second listing raised.
AtomicReplaceWitness ==
    /\ diff.st = "error"
    /\ diff.fault = 0
    /\ diff.prior # {}
    /\ Len(diff.added) = 1
    /\ Len(diff.snap) = 2
    /\ diff.snap[1] = diff.snap[2]

\* C13: the surveillance thread never ends: after a failed scrape, a rejected
\* one or an exception of process_scraped_data it is in its loop, about to
\* scrape, sleeping or acting on what the scrape returned.
SyncLoopNeverStops ==
    pc \in {"run", "loop", "sleep"}

\* C14: after a cycle that applied a snapshot the thread sleeps
\* SURVEILLANCE_INTERVAL; after a failed scrape, a rejected one or an exception
\* of process_scraped_data it sleeps 60 seconds, and that cycle has no new
\* arrivals to hand to the bot's loop.
SleepIntervalSelection ==
    /\ diff.st = "ok" => (pc = "sleep" /\ sleep = SURVEILLANCE_INTERVAL)
    /\ (pc # "loop" /\ gate.verdict \in {"failed", "rejected"}) =>
          (pc = "sleep" /\ sleep = RetrySleep /\ diff = NoDiff)
    /\ diff.st = "error" => (pc = "sleep" /\ sleep = RetrySleep)
    /\ (pc = "sleep" /\ sleep = RetrySleep) => diff = NoDiff

\* C15: a scrape whose page reports no total is accepted whatever its number
\* of rows, and the cycle of an accepted scrape, one of zero rows included,
\* goes on to process_scraped_data and the long sleep, not to the retry.
UnknownTotalApplied ==
    /\ (gate.total = 0 /\ gate.verdict \notin {"none", "failed"}) =>
          gate.verdict = "accepted"
    /\ (pc = "sleep" /\ gate.verdict = "accepted") =>
          (sleep = SURVEILLANCE_INTERVAL /\ diff.st = "ok")

\* C16: adding a tracked game stores the lower-cased, stripped name: when the
\* pair (chat, normalized name) is absent it is added, nothing else changes
\* and the call reports success; when it is present the table is unchanged
\* and the call reports a duplicate, which it reports in no other case; every
\* stored name is normalized.
AddItemSubscription ==
    /\ [] ( \A row \in game_subscriptions : row[2] = Normalize(row[2]) )
    /\ [][ (handler.op = "none" /\ handler'.op = "subscribe") =>
              LET pair == << handler'.chat, Normalize(handler'.name) >>
              IN  IF pair \in game_subscriptions
                  THEN /\ ~ handler'.success
                       /\ game_subscriptions' = game_subscriptions
                  ELSE /\ handler'.success
                       /\ game_subscriptions' = game_subscriptions \cup {pair}
         ]_vars

\* C17: in every state between two steps of the event loop, the set
\* subscribed_users holds the chat ids of table subscriptions, after any
\* sequence of /start and /cancel and any restart of the process.
CacheMatchesTable ==
    subscribed_users = subscriptions

\* C17 witness: the process was started again with one chat in the table, and
\* the set was loaded from it; a chat that is not in the table tracks a game.
CacheMatchesTableWitness ==
    /\ ~ bot_loop
    /\ subscriptions # {}
    /\ subscriptions # Chats
    /\ \E row \in game_subscriptions : row[1] \notin subscriptions

\* C18: when the process is killed and started again, chat 1's queue still
\* holds every pending game but those the runs so far have popped, in their
\* order and once each.
CrashKeepsPending ==
    drain.on =>
        LET pending == drain.q0[Watched]
        IN  \E k \in 0..drain.ticks :
                QGet(new_game_queues, Watched) = SubSeq(pending, k + 1, Len(pending))

\* C19: table sales never holds two rows with the same steam_link, whatever
\* the accepted pages list.
KeyUniqueness ==
    \A r1, r2 \in sales : r1.steam_link = r2.steam_link => r1 = r2

\* C19 witness: a page that listed a new link twice was processed, and the
\* table, which held a row, is the one of before.
KeyUniquenessWitness ==
    /\ diff.st = "error"
    /\ diff.fault = 0
    /\ Len(diff.snap) = 2
    /\ diff.snap[1].steam_link = diff.snap[2].steam_link
    /\ sales # {}
    /\ diff.snap[1].steam_link \notin SalesMap(sales)

\* C20: every send of a queued game is started for a chat that is in
\* subscribed_users at that moment, and a run of the job that comes to the
\* key of a chat that is not in the set drops the chat's queue and sends
\* nothing from it, whatever /cancel, the fan-out and the job interleave to.
KeysPassed ==
    SeqToSet(IF job.pc = "idle" THEN QKeys(new_game_queues) ELSE job.keys)
      \ SeqToSet(job'.keys)

NoAlertForUnsubscribed ==
    [][ ((job' # job \/ new_game_queues' # new_game_queues)
            /\ (JobStart \/ JobResume)) =>
          /\ job'.pc = "await" => job'.cur \in subscribed_users
          /\ \A c \in KeysPassed :
                c \notin subscribed_users =>
                    /\ ~ QHas(new_game_queues', c)
                    /\ ~ (job'.pc = "await" /\ job'.cur = c)
      ]_vars

\* C20 witness: chat 1 was enqueued by the fan-out in progress and its
\* /cancel has not popped the queue yet; the run of the job that is sending
\* to chat 2 came to chat 1's key first and the queue is gone.
NoAlertForUnsubscribedWitness ==
    /\ handler.op = "cancel"
    /\ handler.chat = Watched
    /\ summary.pc = "await"
    /\ summary.sent = << Watched, Other >>
    /\ Len(summary.games) = 2
    /\ QKeys(new_game_queues) = << Other >>
    /\ QGet(new_game_queues, Other) = Tail(summary.games)
    /\ job.pc = "await"
    /\ job.served = << Other >>

\* ------------------------------------------------ fan-out under /start, /cancel
\* The bot comes up with chat Other, or both chats, in table subscriptions.
\* Only chat Watched sends /start and /cancel, so Other is a subscriber during
\* the whole of every fan-out.
FanoutInit ==
    /\ InitSync
    /\ subscriptions \in { {Other}, Chats }
    /\ subscribed_users = LoadSubscriptions(subscriptions)
    /\ game_subscriptions = {}
    /\ new_game_queues = <<>>
    /\ bot_loop = FALSE
    /\ handler = NoHandler
    /\ summary = IdleSummary
    /\ alerts = IdleAlerts
    /\ job = IdleJob
    /\ drain = NoDrain

FanoutNext ==
    \/ RunScraperLogic(ScenarioTotals, ScenarioPages)
    \/ LoopRetry
    \/ LoopProcess(NoFault)
    \/ Wake
    \/ PostInit
    \/ Start(Watched)
    \/ CancelBegin(Watched)
    \/ CancelExecutor
    \/ CancelEnd
    \/ SummaryStart
    \/ SummaryResume
    \/ AlertsRun
    \/ AlertsReturn

SpecFanout == FanoutInit /\ [][FanoutNext]_vars

\* how many times chat_id occurs in the sequence of chats the summary went to
RECURSIVE TimesSent(_, _)
TimesSent(sent, chat_id) ==
    IF sent = <<>> THEN 0
    ELSE (IF Head(sent) = chat_id THEN 1 ELSE 0) + TimesSent(Tail(sent), chat_id)

\* C21: chat Other is in subscribed_users all the time, and when a fan-out of
\* a non-empty list of new games is over, the summary went to Other exactly
\* once, whatever /start and /cancel of the other chat did during the sends.
FanoutReachesEveryone ==
    /\ [](Other \in subscribed_users)
    /\ [][ ( /\ summary.pc \in {"sched", "await"}
             /\ summary'.pc = "idle"
             /\ Len(summary.games) > 0 )
           => TimesSent(summary.sent, Other) = 1 ]_vars

\* ------------------------------------------------ a send that never returns
\* send_message to chat Watched never returns or raises; to any other chat it
\* does
SendReturns ==
    /\ job.cur # Watched
    /\ JobResume

\* the scheduler fires the repeating job
Tick ==
    /\ drain.ticks <= DrainLen
    /\ JobStart

StuckNext ==
    \/ Tick
    \/ SendReturns

\* The job on filled queues with both chats subscribed.  The scheduler keeps
\* firing and the sends that can return do return.
SpecStuck ==
    /\ DrainInit
    /\ [][StuckNext]_vars
    /\ WF_vars(Tick)
    /\ WF_vars(SendReturns)

\* C22: although the send to chat Watched hangs, a game waiting in the queue
\* of chat Other is followed by a send to Other.
DeliveriesIndependent ==
    (QGet(new_game_queues, Other) # <<>>) ~> (job.pc = "await" /\ job.cur = Other)

\* C23: a sales table that has a row keeps having one; a scrape of zero rows
\* is not applied but takes the retry sleep with sales as it was; and a
\* snapshot that is applied leaves in sales the links of the snapshot, of
\* which there is at least one.
CatalogNeverEmptied ==
    [][ /\ sales # {} => sales' # {}
        /\ (pc = "loop" /\ data = <<>> /\ pc' # pc) =>
              /\ sales' = sales
              /\ applied' = applied
              /\ pc' = "sleep"
              /\ sleep' = RetrySleep
        /\ (pc = "loop" /\ diff'.st = "ok") =>
              /\ { row.steam_link : row \in sales' } = LinksOf(data)
              /\ LinksOf(data) # {}
      ]_vars

\* C23 witness: with rows in sales, a scrape that was accepted with zero rows
\* is at the retry sleep.
CatalogNeverEmptiedWitness ==
    /\ pc = "sleep"
    /\ sleep = RetrySleep
    /\ gate.verdict = "accepted"
    /\ gate.count = 0
    /\ sales # {}

====
